---- MODULE Spec2Model ----
(***************************************************************************)
(* Model of the WineMarketplace contract                                   *)
(* (contracts/wine-marketplace/src/lib.rs).                                *)
(*                                                                         *)
(* Every endpoint is one action.  An endpoint body is written as the list  *)
(* of its steps in source order (require!, outgoing transfer, storage      *)
(* write); Run executes the list the way the VM does: the first failing    *)
(* step aborts the call and the whole call is rolled back.  The number of  *)
(* transfers and writes that had already been executed when the call       *)
(* aborted is kept in lastCall.done.                                       *)
(***************************************************************************)
EXTENDS Integers, Sequences, FiniteSets, TLC

\* ---------------------------------------------------------------- bounds
MaxListings == 1
MaxAuctions == 1
MaxCalls == 5
MaxIds == 3

\* ------------------------------------------------------ program constants
MAX_FEE_BPS == 1000
BPS_DENOMINATOR == 10000
MIN_DURATION == 3600
MAX_LISTING_DURATION == 2592000
MAX_AUCTION_DURATION == 604800
EXTENSION_WINDOW == 600
EXTENSION_SECONDS == 600

\* ------------------------------------------------------------ input sets
Owner == "owner"
SC == "sc"
Addresses == {"owner", "alice", "bob"}
EGLD == "EGLD"
USDC == "USDC"
WINE == "WINE"
PaymentTokens == {EGLD, USDC}
NftNonces == {1}
FeeInputs == {250, 1500}
PriceInputs == {0, 7, 100}
ListingDurations == {1800, 3600, 2592001}
BuyAmounts == {7, 100, 120}
StartingPrices == {0, 50}
Increments == {0, 5}
AuctionDurations == {1800, 3600, 604801}
BidAmounts == {54, 55, 61}
\* block timestamps at which calls arrive
GenesisTime == 1000
BlockTimes == {1000, 4000, 4300, 4600, 4900, 5800}

Payment(tok, nonce, amt) == [tok |-> tok, nonce |-> nonce, amt |-> amt]
NoPayment == Payment(EGLD, 0, 0)
\* what a caller can attach to createListing / createAuction
AssetPayments ==
    {NoPayment} \cup {Payment(WINE, n, 1) : n \in NftNonces}
                \cup {Payment(USDC, 0, a) : a \in {1, 2}}
BuyPayments == {Payment(t, 0, a) : t \in PaymentTokens, a \in BuyAmounts}
BidPayments == {Payment(t, 0, a) : t \in PaymentTokens, a \in BidAmounts}

\* ----------------------------------------------------------------- state
VARIABLES
    deployed,
    marketplace_fee_percent,
    wine_registry_address,
    listing_counter,
    auction_counter,
    listings,
    auctions,
    seller_listings,
    seller_auctions,
    supported_payment_tokens,
    marketplace_stats,
    nftOwner,
    scBalance,
    now,
    calls,
    lastCall

vars == <<deployed, marketplace_fee_percent, wine_registry_address,
          listing_counter, auction_counter, listings, auctions,
          seller_listings, seller_auctions, supported_payment_tokens,
          marketplace_stats, nftOwner, scBalance, now, calls, lastCall>>

\* the contract's storage and the ledger balances a call can change
World ==
    [deployed |-> deployed,
     marketplace_fee_percent |-> marketplace_fee_percent,
     wine_registry_address |-> wine_registry_address,
     listing_counter |-> listing_counter,
     auction_counter |-> auction_counter,
     listings |-> listings,
     auctions |-> auctions,
     seller_listings |-> seller_listings,
     seller_auctions |-> seller_auctions,
     supported_payment_tokens |-> supported_payment_tokens,
     marketplace_stats |-> marketplace_stats,
     nftOwner |-> nftOwner,
     scBalance |-> scBalance]

Apply(w) ==
    /\ deployed' = w.deployed
    /\ marketplace_fee_percent' = w.marketplace_fee_percent
    /\ wine_registry_address' = w.wine_registry_address
    /\ listing_counter' = w.listing_counter
    /\ auction_counter' = w.auction_counter
    /\ listings' = w.listings
    /\ auctions' = w.auctions
    /\ seller_listings' = w.seller_listings
    /\ seller_auctions' = w.seller_auctions
    /\ supported_payment_tokens' = w.supported_payment_tokens
    /\ marketplace_stats' = w.marketplace_stats
    /\ nftOwner' = w.nftOwner
    /\ scBalance' = w.scBalance

\* ------------------------------------------------------------- step kinds
Require(cond, msg) == [kind |-> "require", ok |-> cond, msg |-> msg]
Send(to, tok, nonce, amt) ==
    [kind |-> "send", to |-> to, tok |-> tok, nonce |-> nonce, amt |-> amt]
Store(key, val) == [kind |-> "store", key |-> key, val |-> val]

Transfer(s) == [to |-> s.to, tok |-> s.tok, nonce |-> s.nonce, amt |-> s.amt]

\* the attached payment is credited to the contract before the body runs
Credit(w, p) ==
    IF p.tok = WINE THEN [w EXCEPT !.nftOwner[p.nonce] = SC]
    ELSE [w EXCEPT !.scBalance[p.tok] = @ + p.amt]

\* an outgoing transfer needs the contract to hold what it sends
CanSend(w, s) ==
    IF s.tok = WINE THEN s.amt = 1 /\ w.nftOwner[s.nonce] = SC
    ELSE w.scBalance[s.tok] >= s.amt

DoSend(w, s) ==
    IF s.tok = WINE THEN [w EXCEPT !.nftOwner[s.nonce] = s.to]
    ELSE [w EXCEPT !.scBalance[s.tok] = @ - s.amt]

Aborted(w0, msg, done) ==
    [ok |-> FALSE, err |-> msg, done |-> done, w |-> w0, out |-> <<>>]

RECURSIVE Run(_, _, _, _, _, _)
Run(steps, i, w0, w, done, out) ==
    IF i > Len(steps)
    THEN [ok |-> TRUE, err |-> "", done |-> done, w |-> w, out |-> out]
    ELSE LET s == steps[i] IN
         CASE s.kind = "require" ->
                IF s.ok THEN Run(steps, i + 1, w0, w, done, out)
                ELSE Aborted(w0, s.msg, done)
           [] s.kind = "send" ->
                IF CanSend(w, s)
                THEN Run(steps, i + 1, w0, DoSend(w, s), done + 1,
                         Append(out, Transfer(s)))
                ELSE Aborted(w0, "transfer failed", done)
           [] s.kind = "store" ->
                Run(steps, i + 1, w0, [w EXCEPT ![s.key] = s.val],
                    done + 1, out)

\* a call: credit the attached payment, run the body, roll back on abort
Execute(steps, payment) == Run(steps, 1, World, Credit(World, payment), 0, <<>>)

\* ---------------------------------------------------------- record shapes
EmptyListing ==
    [wine_nft_id |-> 0, nft_token_id |-> "", nft_nonce |-> 0, seller |-> "",
     price |-> 0, payment_token |-> "", deadline |-> 0, active |-> FALSE,
     created_timestamp |-> 0]

EmptyAuction ==
    [wine_nft_id |-> 0, nft_token_id |-> "", nft_nonce |-> 0, seller |-> "",
     starting_price |-> 0, current_bid |-> 0, highest_bidder |-> "",
     payment_token |-> "", end_timestamp |-> 0, active |-> FALSE,
     min_bid_increment |-> 0, bid_count |-> 0]

EmptyStats ==
    [total_listings |-> 0, total_sales |-> 0, total_volume |-> 0,
     total_fees_collected |-> 0, active_listings |-> 0, active_auctions |-> 0]

\* self.listings(id).get(): decoding a record from an empty slot fails, the
\* Empty* value only keeps the later steps of an aborting call well-defined
get_listing(listing_id) ==
    IF listing_id \in DOMAIN listings THEN listings[listing_id] ELSE EmptyListing

get_auction(auction_id) ==
    IF auction_id \in DOMAIN auctions THEN auctions[auction_id] ELSE EmptyAuction

\* variant: the fee is rounded to the nearest unit, halves up
marketplace_fee_of_round(price) ==
    (price * marketplace_fee_percent + BPS_DENOMINATOR \div 2) \div BPS_DENOMINATOR

\* variant: the fee is rounded up
marketplace_fee_of_ceil(price) ==
    (price * marketplace_fee_percent + BPS_DENOMINATOR - 1) \div BPS_DENOMINATOR

\* price * fee_percent / 10000 on BigUint: integer division, rounds down
marketplace_fee_of(price) ==
    (price * marketplace_fee_percent) \div BPS_DENOMINATOR

\* ------------------------------------------------------------------ init
\* variant: the fee rate is stored without the cap being checked
init_steps_no_cap(fee_percent, registry) ==
    << Store("marketplace_fee_percent", fee_percent),
       Store("wine_registry_address", registry),
       Store("listing_counter", 1),
       Store("auction_counter", 1),
       Store("supported_payment_tokens", {EGLD}),
       Store("marketplace_stats", EmptyStats),
       Store("deployed", TRUE) >>

init_steps(fee_percent, registry) ==
    << Require(fee_percent <= MAX_FEE_BPS, "Fee cannot exceed 10%"),
       Store("marketplace_fee_percent", fee_percent),
       Store("wine_registry_address", registry),
       Store("listing_counter", 1),
       Store("auction_counter", 1),
       Store("supported_payment_tokens", {EGLD}),
       Store("marketplace_stats", EmptyStats),
       Store("deployed", TRUE) >>

\* ----------------------------------------------------- addSupportedToken
add_supported_token_steps(caller, token_id) ==
    << Require(caller = Owner, "Endpoint can only be called by owner"),
       Store("supported_payment_tokens", supported_payment_tokens \cup {token_id}) >>

\* --------------------------------------------------------- createListing
\* variant: the listing counter is written back without being advanced
create_listing_steps_reuse_id(caller, payment, wine_nft_id, price, payment_token, duration_seconds) ==
    LET current_timestamp == now
        deadline == current_timestamp + duration_seconds
        listing_id == listing_counter
        listing == [wine_nft_id |-> wine_nft_id,
                    nft_token_id |-> payment.tok,
                    nft_nonce |-> payment.nonce,
                    seller |-> caller,
                    price |-> price,
                    payment_token |-> payment_token,
                    deadline |-> deadline,
                    active |-> TRUE,
                    created_timestamp |-> current_timestamp]
    IN << Require(payment_token \in supported_payment_tokens, "Payment token not supported"),
          Require(price # 0, "Price must be greater than zero"),
          Require(duration_seconds >= MIN_DURATION, "Minimum listing duration is 1 hour"),
          Require(duration_seconds <= MAX_LISTING_DURATION, "Maximum listing duration is 30 days"),
          Require(payment.tok # EGLD, "incorrect number of ESDT transfers"),
          Require(payment.amt = 1, "Must send exactly 1 NFT"),
          Store("listings", (listing_id :> listing) @@ listings),
          Store("listing_counter", listing_id),
          Store("seller_listings",
                [seller_listings EXCEPT ![caller] = Append(@, listing_id)]),
          Store("marketplace_stats",
                [marketplace_stats EXCEPT !.total_listings = @ + 1,
                                          !.active_listings = @ + 1]) >>

\* variant: the lower bound on the duration is not checked
create_listing_steps_no_min_duration(caller, payment, wine_nft_id, price, payment_token, duration_seconds) ==
    LET current_timestamp == now
        deadline == current_timestamp + duration_seconds
        listing_id == listing_counter
        listing == [wine_nft_id |-> wine_nft_id,
                    nft_token_id |-> payment.tok,
                    nft_nonce |-> payment.nonce,
                    seller |-> caller,
                    price |-> price,
                    payment_token |-> payment_token,
                    deadline |-> deadline,
                    active |-> TRUE,
                    created_timestamp |-> current_timestamp]
    IN << Require(payment_token \in supported_payment_tokens, "Payment token not supported"),
          Require(price # 0, "Price must be greater than zero"),
          Require(duration_seconds <= MAX_LISTING_DURATION, "Maximum listing duration is 30 days"),
          Require(payment.tok # EGLD, "incorrect number of ESDT transfers"),
          Require(payment.amt = 1, "Must send exactly 1 NFT"),
          Store("listings", (listing_id :> listing) @@ listings),
          Store("listing_counter", listing_id + 1),
          Store("seller_listings",
                [seller_listings EXCEPT ![caller] = Append(@, listing_id)]),
          Store("marketplace_stats",
                [marketplace_stats EXCEPT !.total_listings = @ + 1,
                                          !.active_listings = @ + 1]) >>

create_listing_steps(caller, payment, wine_nft_id, price, payment_token, duration_seconds) ==
    LET current_timestamp == now
        deadline == current_timestamp + duration_seconds
        listing_id == listing_counter
        listing == [wine_nft_id |-> wine_nft_id,
                    nft_token_id |-> payment.tok,
                    nft_nonce |-> payment.nonce,
                    seller |-> caller,
                    price |-> price,
                    payment_token |-> payment_token,
                    deadline |-> deadline,
                    active |-> TRUE,
                    created_timestamp |-> current_timestamp]
    IN << Require(payment_token \in supported_payment_tokens, "Payment token not supported"),
          Require(price # 0, "Price must be greater than zero"),
          Require(duration_seconds >= MIN_DURATION, "Minimum listing duration is 1 hour"),
          Require(duration_seconds <= MAX_LISTING_DURATION, "Maximum listing duration is 30 days"),
          Require(payment.tok # EGLD, "incorrect number of ESDT transfers"),
          Require(payment.amt = 1, "Must send exactly 1 NFT"),
          Store("listings", (listing_id :> listing) @@ listings),
          Store("listing_counter", listing_id + 1),
          Store("seller_listings",
                [seller_listings EXCEPT ![caller] = Append(@, listing_id)]),
          Store("marketplace_stats",
                [marketplace_stats EXCEPT !.total_listings = @ + 1,
                                          !.active_listings = @ + 1]) >>

\* --------------------------------------------------------------- buyWine
\* variant: the volume statistic grows by the amount attached, surplus included
buy_wine_steps_volume_attached(caller, payment, listing_id) ==
    LET listing == get_listing(listing_id)
        buyer == caller
        marketplace_fee == marketplace_fee_of(listing.price)
        seller_amount == listing.price - marketplace_fee
        surplus == payment.amt - listing.price
    IN << Require(listing_id \in DOMAIN listings, "storage decode error"),
          Require(listing.active, "Listing is not active"),
          Require(now <= listing.deadline, "Listing has expired"),
          Require(payment.tok = listing.payment_token, "Invalid payment token"),
          Require(payment.amt >= listing.price, "Insufficient payment"),
          Require(buyer # listing.seller, "Cannot buy your own listing"),
          Require(seller_amount >= 0, "cannot subtract because result would be negative"),
          Send(buyer, listing.nft_token_id, listing.nft_nonce, 1),
          Send(listing.seller, listing.payment_token, 0, seller_amount) >>
       \o (IF marketplace_fee # 0
           THEN << Send(Owner, listing.payment_token, 0, marketplace_fee) >>
           ELSE << >>)
       \o << Require(surplus >= 0, "cannot subtract because result would be negative") >>
       \o (IF surplus > 0
           THEN << Send(buyer, payment.tok, 0, surplus) >>
           ELSE << >>)
       \o << Store("listings", [l \in DOMAIN listings |->
                        IF l = listing_id THEN [listing EXCEPT !.active = FALSE]
                        ELSE listings[l]]),
             Store("marketplace_stats",
                   [marketplace_stats EXCEPT
                        !.total_sales = @ + 1,
                        !.total_volume = @ + payment.amt,
                        !.total_fees_collected = @ + marketplace_fee,
                        !.active_listings = @ - 1]) >>

\* variant: a purchase at the deadline itself is already too late
buy_wine_steps_strict_deadline(caller, payment, listing_id) ==
    LET listing == get_listing(listing_id)
        buyer == caller
        marketplace_fee == marketplace_fee_of(listing.price)
        seller_amount == listing.price - marketplace_fee
        surplus == payment.amt - listing.price
    IN << Require(listing_id \in DOMAIN listings, "storage decode error"),
          Require(listing.active, "Listing is not active"),
          Require(now < listing.deadline, "Listing has expired"),
          Require(payment.tok = listing.payment_token, "Invalid payment token"),
          Require(payment.amt >= listing.price, "Insufficient payment"),
          Require(buyer # listing.seller, "Cannot buy your own listing"),
          Require(seller_amount >= 0, "cannot subtract because result would be negative"),
          Send(buyer, listing.nft_token_id, listing.nft_nonce, 1),
          Send(listing.seller, listing.payment_token, 0, seller_amount) >>
       \o (IF marketplace_fee # 0
           THEN << Send(Owner, listing.payment_token, 0, marketplace_fee) >>
           ELSE << >>)
       \o << Require(surplus >= 0, "cannot subtract because result would be negative") >>
       \o (IF surplus > 0
           THEN << Send(buyer, payment.tok, 0, surplus) >>
           ELSE << >>)
       \o << Store("listings", [l \in DOMAIN listings |->
                        IF l = listing_id THEN [listing EXCEPT !.active = FALSE]
                        ELSE listings[l]]),
             Store("marketplace_stats",
                   [marketplace_stats EXCEPT
                        !.total_sales = @ + 1,
                        !.total_volume = @ + listing.price,
                        !.total_fees_collected = @ + marketplace_fee,
                        !.active_listings = @ - 1]) >>

\* variant: the self-purchase check is made only after the asset has gone out
buy_wine_steps_late_check(caller, payment, listing_id) ==
    LET listing == get_listing(listing_id)
        buyer == caller
        marketplace_fee == marketplace_fee_of(listing.price)
        seller_amount == listing.price - marketplace_fee
        surplus == payment.amt - listing.price
    IN << Require(listing_id \in DOMAIN listings, "storage decode error"),
          Require(listing.active, "Listing is not active"),
          Require(now <= listing.deadline, "Listing has expired"),
          Require(payment.tok = listing.payment_token, "Invalid payment token"),
          Require(payment.amt >= listing.price, "Insufficient payment"),
          Require(seller_amount >= 0, "cannot subtract because result would be negative"),
          Send(buyer, listing.nft_token_id, listing.nft_nonce, 1),
          Require(buyer # listing.seller, "Cannot buy your own listing"),
          Send(listing.seller, listing.payment_token, 0, seller_amount) >>
       \o (IF marketplace_fee # 0
           THEN << Send(Owner, listing.payment_token, 0, marketplace_fee) >>
           ELSE << >>)
       \o << Require(surplus >= 0, "cannot subtract because result would be negative") >>
       \o (IF surplus > 0
           THEN << Send(buyer, payment.tok, 0, surplus) >>
           ELSE << >>)
       \o << Store("listings", [l \in DOMAIN listings |->
                        IF l = listing_id THEN [listing EXCEPT !.active = FALSE]
                        ELSE listings[l]]),
             Store("marketplace_stats",
                   [marketplace_stats EXCEPT
                        !.total_sales = @ + 1,
                        !.total_volume = @ + listing.price,
                        !.total_fees_collected = @ + marketplace_fee,
                        !.active_listings = @ - 1]) >>

buy_wine_steps(caller, payment, listing_id) ==
    LET listing == get_listing(listing_id)
        buyer == caller
        marketplace_fee == marketplace_fee_of(listing.price)
        seller_amount == listing.price - marketplace_fee
        surplus == payment.amt - listing.price
    IN << Require(listing_id \in DOMAIN listings, "storage decode error"),
          Require(listing.active, "Listing is not active"),
          Require(now <= listing.deadline, "Listing has expired"),
          Require(payment.tok = listing.payment_token, "Invalid payment token"),
          Require(payment.amt >= listing.price, "Insufficient payment"),
          Require(buyer # listing.seller, "Cannot buy your own listing"),
          Require(seller_amount >= 0, "cannot subtract because result would be negative"),
          Send(buyer, listing.nft_token_id, listing.nft_nonce, 1),
          Send(listing.seller, listing.payment_token, 0, seller_amount) >>
       \o (IF marketplace_fee # 0
           THEN << Send(Owner, listing.payment_token, 0, marketplace_fee) >>
           ELSE << >>)
       \o << Require(surplus >= 0, "cannot subtract because result would be negative") >>
       \o (IF surplus > 0
           THEN << Send(buyer, payment.tok, 0, surplus) >>
           ELSE << >>)
       \o << Store("listings", [l \in DOMAIN listings |->
                        IF l = listing_id THEN [listing EXCEPT !.active = FALSE]
                        ELSE listings[l]]),
             Store("marketplace_stats",
                   [marketplace_stats EXCEPT
                        !.total_sales = @ + 1,
                        !.total_volume = @ + listing.price,
                        !.total_fees_collected = @ + marketplace_fee,
                        !.active_listings = @ - 1]) >>

\* --------------------------------------------------------- cancelListing
\* variant: a listing can be cancelled only up to its deadline
cancel_listing_steps_before_expiry(caller, listing_id) ==
    LET listing == get_listing(listing_id)
    IN << Require(listing_id \in DOMAIN listings, "storage decode error"),
          Require(listing.active, "Listing is not active"),
          Require(now <= listing.deadline, "Listing has expired"),
          Require(caller = listing.seller, "Only seller can cancel listing"),
          Send(listing.seller, listing.nft_token_id, listing.nft_nonce, 1),
          Store("listings", [l \in DOMAIN listings |->
                     IF l = listing_id THEN [listing EXCEPT !.active = FALSE]
                     ELSE listings[l]]),
          Store("marketplace_stats",
                [marketplace_stats EXCEPT !.active_listings = @ - 1]) >>

\* variant: anyone may cancel a listing
cancel_listing_steps_anyone(caller, listing_id) ==
    LET listing == get_listing(listing_id)
    IN << Require(listing_id \in DOMAIN listings, "storage decode error"),
          Require(listing.active, "Listing is not active"),
          Send(listing.seller, listing.nft_token_id, listing.nft_nonce, 1),
          Store("listings", [l \in DOMAIN listings |->
                     IF l = listing_id THEN [listing EXCEPT !.active = FALSE]
                     ELSE listings[l]]),
          Store("marketplace_stats",
                [marketplace_stats EXCEPT !.active_listings = @ - 1]) >>

\* variant: a cancellation leaves the statistics alone
cancel_listing_steps_keep_count(caller, listing_id) ==
    LET listing == get_listing(listing_id)
    IN << Require(listing_id \in DOMAIN listings, "storage decode error"),
          Require(listing.active, "Listing is not active"),
          Require(caller = listing.seller, "Only seller can cancel listing"),
          Send(listing.seller, listing.nft_token_id, listing.nft_nonce, 1),
          Store("listings", [l \in DOMAIN listings |->
                     IF l = listing_id THEN [listing EXCEPT !.active = FALSE]
                     ELSE listings[l]]) >>

\* variant: the record of a cancelled listing is cleared
cancel_listing_steps_clear(caller, listing_id) ==
    LET listing == get_listing(listing_id)
    IN << Require(listing_id \in DOMAIN listings, "storage decode error"),
          Require(listing.active, "Listing is not active"),
          Require(caller = listing.seller, "Only seller can cancel listing"),
          Send(listing.seller, listing.nft_token_id, listing.nft_nonce, 1),
          Store("listings", [l \in DOMAIN listings \ {listing_id} |-> listings[l]]),
          Store("marketplace_stats",
                [marketplace_stats EXCEPT !.active_listings = @ - 1]) >>

cancel_listing_steps(caller, listing_id) ==
    LET listing == get_listing(listing_id)
    IN << Require(listing_id \in DOMAIN listings, "storage decode error"),
          Require(listing.active, "Listing is not active"),
          Require(caller = listing.seller, "Only seller can cancel listing"),
          Send(listing.seller, listing.nft_token_id, listing.nft_nonce, 1),
          Store("listings", [l \in DOMAIN listings |->
                     IF l = listing_id THEN [listing EXCEPT !.active = FALSE]
                     ELSE listings[l]]),
          Store("marketplace_stats",
                [marketplace_stats EXCEPT !.active_listings = @ - 1]) >>

\* --------------------------------------------------------- createAuction
\* variant: a new auction is counted among the listings as well
create_auction_steps_counts_listing(caller, payment, wine_nft_id, starting_price, payment_token, duration_seconds, min_bid_increment) ==
    LET end_timestamp == now + duration_seconds
        auction_id == auction_counter
        auction == [wine_nft_id |-> wine_nft_id,
                    nft_token_id |-> payment.tok,
                    nft_nonce |-> payment.nonce,
                    seller |-> caller,
                    starting_price |-> starting_price,
                    current_bid |-> starting_price,
                    highest_bidder |-> caller,
                    payment_token |-> payment_token,
                    end_timestamp |-> end_timestamp,
                    active |-> TRUE,
                    min_bid_increment |-> min_bid_increment,
                    bid_count |-> 0]
    IN << Require(payment_token \in supported_payment_tokens, "Payment token not supported"),
          Require(starting_price # 0, "Starting price must be greater than zero"),
          Require(duration_seconds >= MIN_DURATION, "Minimum auction duration is 1 hour"),
          Require(duration_seconds <= MAX_AUCTION_DURATION, "Maximum auction duration is 7 days"),
          Require(min_bid_increment # 0, "Min bid increment must be greater than zero"),
          Require(payment.tok # EGLD, "incorrect number of ESDT transfers"),
          Require(payment.amt = 1, "Must send exactly 1 NFT"),
          Store("auctions", (auction_id :> auction) @@ auctions),
          Store("auction_counter", auction_id + 1),
          Store("seller_auctions",
                [seller_auctions EXCEPT ![caller] = Append(@, auction_id)]),
          Store("marketplace_stats",
                [marketplace_stats EXCEPT !.total_listings = @ + 1,
                                          !.active_auctions = @ + 1]) >>

create_auction_steps(caller, payment, wine_nft_id, starting_price, payment_token, duration_seconds, min_bid_increment) ==
    LET end_timestamp == now + duration_seconds
        auction_id == auction_counter
        auction == [wine_nft_id |-> wine_nft_id,
                    nft_token_id |-> payment.tok,
                    nft_nonce |-> payment.nonce,
                    seller |-> caller,
                    starting_price |-> starting_price,
                    current_bid |-> starting_price,
                    highest_bidder |-> caller,
                    payment_token |-> payment_token,
                    end_timestamp |-> end_timestamp,
                    active |-> TRUE,
                    min_bid_increment |-> min_bid_increment,
                    bid_count |-> 0]
    IN << Require(payment_token \in supported_payment_tokens, "Payment token not supported"),
          Require(starting_price # 0, "Starting price must be greater than zero"),
          Require(duration_seconds >= MIN_DURATION, "Minimum auction duration is 1 hour"),
          Require(duration_seconds <= MAX_AUCTION_DURATION, "Maximum auction duration is 7 days"),
          Require(min_bid_increment # 0, "Min bid increment must be greater than zero"),
          Require(payment.tok # EGLD, "incorrect number of ESDT transfers"),
          Require(payment.amt = 1, "Must send exactly 1 NFT"),
          Store("auctions", (auction_id :> auction) @@ auctions),
          Store("auction_counter", auction_id + 1),
          Store("seller_auctions",
                [seller_auctions EXCEPT ![caller] = Append(@, auction_id)]),
          Store("marketplace_stats",
                [marketplace_stats EXCEPT !.active_auctions = @ + 1]) >>

\* -------------------------------------------------------------- placeBid
\* variant: the increment is not added
min_bid_of_no_increment(auction) == auction.current_bid

\* variant: the standing bid is not added
min_bid_of_increment_only(auction) == auction.min_bid_increment

\* let min_bid = &auction.current_bid + &auction.min_bid_increment
min_bid_of(auction) == auction.current_bid + auction.min_bid_increment

\* variant: off by one on the bid count
has_real_bid_off_by_one(auction) ==
    auction.highest_bidder # auction.seller /\ auction.bid_count > 1

\* if auction.highest_bidder != auction.seller && auction.bid_count > 0
has_real_bid(auction) ==
    auction.highest_bidder # auction.seller /\ auction.bid_count > 0

\* variant: only a bid in the last five minutes extends the auction
extended_end_short_window(auction, t) ==
    LET time_left == auction.end_timestamp - t
    IN IF time_left < EXTENSION_WINDOW \div 2
       THEN auction.end_timestamp + EXTENSION_SECONDS
       ELSE auction.end_timestamp

\* variant: a bid with exactly the threshold left extends too
extended_end_inclusive(auction, t) ==
    LET time_left == auction.end_timestamp - t
    IN IF time_left <= EXTENSION_WINDOW
       THEN auction.end_timestamp + EXTENSION_SECONDS
       ELSE auction.end_timestamp

\* anti-sniping: end_timestamp after a bid accepted at block time t
extended_end(auction, t) ==
    LET time_left == auction.end_timestamp - t
    IN IF time_left < EXTENSION_WINDOW
       THEN auction.end_timestamp + EXTENSION_SECONDS
       ELSE auction.end_timestamp

\* variant: a bid at the very second the auction ends is still taken
place_bid_steps_at_end(caller, payment, auction_id) ==
    LET auction == get_auction(auction_id)
        bidder == caller
        min_bid == min_bid_of(auction)
        updated == [auction EXCEPT !.current_bid = payment.amt,
                                   !.highest_bidder = bidder,
                                   !.bid_count = @ + 1,
                                   !.end_timestamp = extended_end(auction, now)]
    IN << Require(auction_id \in DOMAIN auctions, "storage decode error"),
          Require(auction.active, "Auction is not active"),
          Require(now <= auction.end_timestamp, "Auction has ended"),
          Require(payment.tok = auction.payment_token, "Invalid payment token"),
          Require(bidder # auction.seller, "Cannot bid on your own auction"),
          Require(payment.amt >= min_bid, "Bid too low") >>
       \o (IF has_real_bid(auction)
           THEN << Send(auction.highest_bidder, auction.payment_token, 0,
                        auction.current_bid) >>
           ELSE << >>)
       \o << Store("auctions", [a \in DOMAIN auctions |->
                        IF a = auction_id THEN updated ELSE auctions[a]]) >>

\* variant: the seller is not kept from bidding
place_bid_steps_seller_may_bid(caller, payment, auction_id) ==
    LET auction == get_auction(auction_id)
        bidder == caller
        min_bid == min_bid_of(auction)
        updated == [auction EXCEPT !.current_bid = payment.amt,
                                   !.highest_bidder = bidder,
                                   !.bid_count = @ + 1,
                                   !.end_timestamp = extended_end(auction, now)]
    IN << Require(auction_id \in DOMAIN auctions, "storage decode error"),
          Require(auction.active, "Auction is not active"),
          Require(now < auction.end_timestamp, "Auction has ended"),
          Require(payment.tok = auction.payment_token, "Invalid payment token"),
          Require(payment.amt >= min_bid, "Bid too low") >>
       \o (IF has_real_bid(auction)
           THEN << Send(auction.highest_bidder, auction.payment_token, 0,
                        auction.current_bid) >>
           ELSE << >>)
       \o << Store("auctions", [a \in DOMAIN auctions |->
                        IF a = auction_id THEN updated ELSE auctions[a]]) >>

place_bid_steps(caller, payment, auction_id) ==
    LET auction == get_auction(auction_id)
        bidder == caller
        min_bid == min_bid_of(auction)
        updated == [auction EXCEPT !.current_bid = payment.amt,
                                   !.highest_bidder = bidder,
                                   !.bid_count = @ + 1,
                                   !.end_timestamp = extended_end(auction, now)]
    IN << Require(auction_id \in DOMAIN auctions, "storage decode error"),
          Require(auction.active, "Auction is not active"),
          Require(now < auction.end_timestamp, "Auction has ended"),
          Require(payment.tok = auction.payment_token, "Invalid payment token"),
          Require(bidder # auction.seller, "Cannot bid on your own auction"),
          Require(payment.amt >= min_bid, "Bid too low") >>
       \o (IF has_real_bid(auction)
           THEN << Send(auction.highest_bidder, auction.payment_token, 0,
                        auction.current_bid) >>
           ELSE << >>)
       \o << Store("auctions", [a \in DOMAIN auctions |->
                        IF a = auction_id THEN updated ELSE auctions[a]]) >>

\* ------------------------------------------------------- finalizeAuction
\* variant: anyone may finalize an ended auction
finalize_auction_steps_anyone(caller, auction_id) ==
    LET auction == get_auction(auction_id)
        closed == [auction EXCEPT !.active = FALSE]
        stats1 == [marketplace_stats EXCEPT !.active_auctions = @ - 1]
        marketplace_fee == marketplace_fee_of(auction.current_bid)
        seller_amount == auction.current_bid - marketplace_fee
    IN << Require(auction_id \in DOMAIN auctions, "storage decode error"),
          Require(auction.active, "Auction is not active"),
          Require(now >= auction.end_timestamp, "Auction has not ended yet"),
          Store("auctions", [a \in DOMAIN auctions |->
                     IF a = auction_id THEN closed ELSE auctions[a]]),
          Store("marketplace_stats", stats1) >>
       \o (IF auction.bid_count > 0 /\ auction.highest_bidder # auction.seller
           THEN << Require(seller_amount >= 0,
                           "cannot subtract because result would be negative"),
                   Send(auction.highest_bidder, auction.nft_token_id,
                        auction.nft_nonce, 1),
                   Send(auction.seller, auction.payment_token, 0, seller_amount) >>
                \o (IF marketplace_fee # 0
                    THEN << Send(Owner, auction.payment_token, 0, marketplace_fee) >>
                    ELSE << >>)
                \o << Store("marketplace_stats",
                            [stats1 EXCEPT
                                 !.total_sales = @ + 1,
                                 !.total_volume = @ + auction.current_bid,
                                 !.total_fees_collected = @ + marketplace_fee]) >>
           ELSE << Send(auction.seller, auction.nft_token_id, auction.nft_nonce, 1) >>)

\* variant: the sale counter is bumped after the branch, for unsold auctions too
finalize_auction_steps_unsold_counted(caller, auction_id) ==
    LET auction == get_auction(auction_id)
        closed == [auction EXCEPT !.active = FALSE]
        stats1 == [marketplace_stats EXCEPT !.active_auctions = @ - 1]
        marketplace_fee == marketplace_fee_of(auction.current_bid)
        seller_amount == auction.current_bid - marketplace_fee
    IN << Require(auction_id \in DOMAIN auctions, "storage decode error"),
          Require(auction.active, "Auction is not active"),
          Require(now >= auction.end_timestamp, "Auction has not ended yet"),
          Require(caller = auction.seller \/ caller = auction.highest_bidder,
                  "Only seller or highest bidder can finalize"),
          Store("auctions", [a \in DOMAIN auctions |->
                     IF a = auction_id THEN closed ELSE auctions[a]]),
          Store("marketplace_stats", stats1) >>
       \o (IF auction.bid_count > 0 /\ auction.highest_bidder # auction.seller
           THEN << Require(seller_amount >= 0,
                           "cannot subtract because result would be negative"),
                   Send(auction.highest_bidder, auction.nft_token_id,
                        auction.nft_nonce, 1),
                   Send(auction.seller, auction.payment_token, 0, seller_amount) >>
                \o (IF marketplace_fee # 0
                    THEN << Send(Owner, auction.payment_token, 0, marketplace_fee) >>
                    ELSE << >>)
                \o << Store("marketplace_stats",
                            [stats1 EXCEPT
                                 !.total_sales = @ + 1,
                                 !.total_volume = @ + auction.current_bid,
                                 !.total_fees_collected = @ + marketplace_fee]) >>
           ELSE << Send(auction.seller, auction.nft_token_id, auction.nft_nonce, 1),
                   Store("marketplace_stats",
                         [stats1 EXCEPT !.total_sales = @ + 1]) >>)

\* variant: the volume statistic grows by the seller's net amount
finalize_auction_steps_net_volume(caller, auction_id) ==
    LET auction == get_auction(auction_id)
        closed == [auction EXCEPT !.active = FALSE]
        stats1 == [marketplace_stats EXCEPT !.active_auctions = @ - 1]
        marketplace_fee == marketplace_fee_of(auction.current_bid)
        seller_amount == auction.current_bid - marketplace_fee
    IN << Require(auction_id \in DOMAIN auctions, "storage decode error"),
          Require(auction.active, "Auction is not active"),
          Require(now >= auction.end_timestamp, "Auction has not ended yet"),
          Require(caller = auction.seller \/ caller = auction.highest_bidder,
                  "Only seller or highest bidder can finalize"),
          Store("auctions", [a \in DOMAIN auctions |->
                     IF a = auction_id THEN closed ELSE auctions[a]]),
          Store("marketplace_stats", stats1) >>
       \o (IF auction.bid_count > 0 /\ auction.highest_bidder # auction.seller
           THEN << Require(seller_amount >= 0,
                           "cannot subtract because result would be negative"),
                   Send(auction.highest_bidder, auction.nft_token_id,
                        auction.nft_nonce, 1),
                   Send(auction.seller, auction.payment_token, 0, seller_amount) >>
                \o (IF marketplace_fee # 0
                    THEN << Send(Owner, auction.payment_token, 0, marketplace_fee) >>
                    ELSE << >>)
                \o << Store("marketplace_stats",
                            [stats1 EXCEPT
                                 !.total_sales = @ + 1,
                                 !.total_volume = @ + seller_amount,
                                 !.total_fees_collected = @ + marketplace_fee]) >>
           ELSE << Send(auction.seller, auction.nft_token_id, auction.nft_nonce, 1) >>)

\* variant: the asset of a sold auction goes to whoever finalizes
finalize_auction_steps_to_caller(caller, auction_id) ==
    LET auction == get_auction(auction_id)
        closed == [auction EXCEPT !.active = FALSE]
        stats1 == [marketplace_stats EXCEPT !.active_auctions = @ - 1]
        marketplace_fee == marketplace_fee_of(auction.current_bid)
        seller_amount == auction.current_bid - marketplace_fee
    IN << Require(auction_id \in DOMAIN auctions, "storage decode error"),
          Require(auction.active, "Auction is not active"),
          Require(now >= auction.end_timestamp, "Auction has not ended yet"),
          Require(caller = auction.seller \/ caller = auction.highest_bidder,
                  "Only seller or highest bidder can finalize"),
          Store("auctions", [a \in DOMAIN auctions |->
                     IF a = auction_id THEN closed ELSE auctions[a]]),
          Store("marketplace_stats", stats1) >>
       \o (IF auction.bid_count > 0 /\ auction.highest_bidder # auction.seller
           THEN << Require(seller_amount >= 0,
                           "cannot subtract because result would be negative"),
                   Send(caller, auction.nft_token_id, auction.nft_nonce, 1),
                   Send(auction.seller, auction.payment_token, 0, seller_amount) >>
                \o (IF marketplace_fee # 0
                    THEN << Send(Owner, auction.payment_token, 0, marketplace_fee) >>
                    ELSE << >>)
                \o << Store("marketplace_stats",
                            [stats1 EXCEPT
                                 !.total_sales = @ + 1,
                                 !.total_volume = @ + auction.current_bid,
                                 !.total_fees_collected = @ + marketplace_fee]) >>
           ELSE << Send(auction.seller, auction.nft_token_id, auction.nft_nonce, 1) >>)

\* variant: an auction that is no longer active can be finalized
finalize_auction_steps_no_active_check(caller, auction_id) ==
    LET auction == get_auction(auction_id)
        closed == [auction EXCEPT !.active = FALSE]
        stats1 == [marketplace_stats EXCEPT !.active_auctions = @ - 1]
        marketplace_fee == marketplace_fee_of(auction.current_bid)
        seller_amount == auction.current_bid - marketplace_fee
    IN << Require(auction_id \in DOMAIN auctions, "storage decode error"),
          Require(now >= auction.end_timestamp, "Auction has not ended yet"),
          Require(caller = auction.seller \/ caller = auction.highest_bidder,
                  "Only seller or highest bidder can finalize"),
          Store("auctions", [a \in DOMAIN auctions |->
                     IF a = auction_id THEN closed ELSE auctions[a]]),
          Store("marketplace_stats", stats1) >>
       \o (IF auction.bid_count > 0 /\ auction.highest_bidder # auction.seller
           THEN << Require(seller_amount >= 0,
                           "cannot subtract because result would be negative"),
                   Send(auction.highest_bidder, auction.nft_token_id,
                        auction.nft_nonce, 1),
                   Send(auction.seller, auction.payment_token, 0, seller_amount) >>
                \o (IF marketplace_fee # 0
                    THEN << Send(Owner, auction.payment_token, 0, marketplace_fee) >>
                    ELSE << >>)
                \o << Store("marketplace_stats",
                            [stats1 EXCEPT
                                 !.total_sales = @ + 1,
                                 !.total_volume = @ + auction.current_bid,
                                 !.total_fees_collected = @ + marketplace_fee]) >>
           ELSE << Send(auction.seller, auction.nft_token_id, auction.nft_nonce, 1) >>)

finalize_auction_steps(caller, auction_id) ==
    LET auction == get_auction(auction_id)
        closed == [auction EXCEPT !.active = FALSE]
        stats1 == [marketplace_stats EXCEPT !.active_auctions = @ - 1]
        marketplace_fee == marketplace_fee_of(auction.current_bid)
        seller_amount == auction.current_bid - marketplace_fee
    IN << Require(auction_id \in DOMAIN auctions, "storage decode error"),
          Require(auction.active, "Auction is not active"),
          Require(now >= auction.end_timestamp, "Auction has not ended yet"),
          Require(caller = auction.seller \/ caller = auction.highest_bidder,
                  "Only seller or highest bidder can finalize"),
          Store("auctions", [a \in DOMAIN auctions |->
                     IF a = auction_id THEN closed ELSE auctions[a]]),
          Store("marketplace_stats", stats1) >>
       \o (IF auction.bid_count > 0 /\ auction.highest_bidder # auction.seller
           THEN << Require(seller_amount >= 0,
                           "cannot subtract because result would be negative"),
                   Send(auction.highest_bidder, auction.nft_token_id,
                        auction.nft_nonce, 1),
                   Send(auction.seller, auction.payment_token, 0, seller_amount) >>
                \o (IF marketplace_fee # 0
                    THEN << Send(Owner, auction.payment_token, 0, marketplace_fee) >>
                    ELSE << >>)
                \o << Store("marketplace_stats",
                            [stats1 EXCEPT
                                 !.total_sales = @ + 1,
                                 !.total_volume = @ + auction.current_bid,
                                 !.total_fees_collected = @ + marketplace_fee]) >>
           ELSE << Send(auction.seller, auction.nft_token_id, auction.nft_nonce, 1) >>)

\* ------------------------------------------------- the endpoints as calls
init_call(fee_percent, registry) ==
    Execute(init_steps(fee_percent, registry), NoPayment)

add_supported_token_call(caller, token_id) ==
    Execute(add_supported_token_steps(caller, token_id), NoPayment)

create_listing_call(caller, payment, wine_nft_id, price, payment_token, duration_seconds) ==
    Execute(create_listing_steps(caller, payment, wine_nft_id, price,
                                 payment_token, duration_seconds), payment)

buy_wine_call(caller, payment, listing_id) ==
    Execute(buy_wine_steps(caller, payment, listing_id), payment)

cancel_listing_call(caller, listing_id) ==
    Execute(cancel_listing_steps(caller, listing_id), NoPayment)

create_auction_call(caller, payment, wine_nft_id, starting_price, payment_token, duration_seconds, min_bid_increment) ==
    Execute(create_auction_steps(caller, payment, wine_nft_id, starting_price,
                                 payment_token, duration_seconds,
                                 min_bid_increment), payment)

place_bid_call(caller, payment, auction_id) ==
    Execute(place_bid_steps(caller, payment, auction_id), payment)

finalize_auction_call(caller, auction_id) ==
    Execute(finalize_auction_steps(caller, auction_id), NoPayment)

\* --------------------------------------------------------------- actions
NoCall == [op |-> "none", caller |-> "", id |-> 0, out |-> <<>>, ret |-> 0]

\* An accepted call is applied and recorded in lastCall (endpoint, caller, id
\* it worked on, outgoing transfers in order, returned id).  A rejected call is
\* rolled back: r.w is the world before the call and nothing else changes.
Call(op, caller, id, r, ret) ==
    /\ Apply(r.w)
    /\ lastCall' = IF r.ok THEN [op |-> op, caller |-> caller, id |-> id,
                                   out |-> r.out, ret |-> ret]
                   ELSE lastCall
    /\ calls' = IF r.ok THEN calls + 1 ELSE calls
    /\ UNCHANGED now

\* the caller must hold the asset it attaches: a WINE token is held by one
\* address; units of the fungible token are offered as an asset by one account
Holds(caller, payment) ==
    /\ payment.tok = WINE => nftOwner[payment.nonce] = caller
    /\ (payment.tok = USDC /\ payment.amt > 0) => caller = Owner

ListingIds == 1..(MaxListings + 1)
AuctionIds == 1..(MaxAuctions + 1)

init ==
    /\ ~deployed
    /\ calls < MaxCalls
    /\ \E fee_percent \in FeeInputs :
          Call("init", Owner, 0, init_call(fee_percent, "registry"), 0)

add_supported_token ==
    /\ deployed
    /\ calls < MaxCalls
    /\ \E caller \in Addresses, token_id \in PaymentTokens :
          Call("addSupportedToken", caller, 0,
               add_supported_token_call(caller, token_id), 0)

create_listing ==
    /\ deployed
    /\ calls < MaxCalls
    /\ listing_counter <= MaxListings
    /\ \E caller \in Addresses, payment \in AssetPayments, price \in PriceInputs,
          payment_token \in PaymentTokens, duration_seconds \in ListingDurations :
          /\ Holds(caller, payment)
          /\ Call("createListing", caller, listing_counter,
                  create_listing_call(caller, payment, 1, price, payment_token,
                                      duration_seconds),
                  listing_counter)

buy_wine ==
    /\ deployed
    /\ calls < MaxCalls
    /\ \E caller \in Addresses, payment \in BuyPayments, listing_id \in ListingIds :
          Call("buyWine", caller, listing_id,
               buy_wine_call(caller, payment, listing_id), 0)

cancel_listing ==
    /\ deployed
    /\ calls < MaxCalls
    /\ \E caller \in Addresses, listing_id \in ListingIds :
          Call("cancelListing", caller, listing_id,
               cancel_listing_call(caller, listing_id), 0)

create_auction ==
    /\ deployed
    /\ calls < MaxCalls
    /\ auction_counter <= MaxAuctions
    /\ \E caller \in Addresses, payment \in AssetPayments,
          starting_price \in StartingPrices, payment_token \in PaymentTokens,
          duration_seconds \in AuctionDurations, min_bid_increment \in Increments :
          /\ Holds(caller, payment)
          /\ Call("createAuction", caller, auction_counter,
                  create_auction_call(caller, payment, 1, starting_price,
                                      payment_token, duration_seconds,
                                      min_bid_increment),
                  auction_counter)

place_bid ==
    /\ deployed
    /\ calls < MaxCalls
    /\ \E caller \in Addresses, payment \in BidPayments, auction_id \in AuctionIds :
          Call("placeBid", caller, auction_id,
               place_bid_call(caller, payment, auction_id), 0)

finalize_auction ==
    /\ deployed
    /\ calls < MaxCalls
    /\ \E caller \in Addresses, auction_id \in AuctionIds :
          Call("finalizeAuction", caller, auction_id,
               finalize_auction_call(caller, auction_id), 0)

\* the block timestamp moves forward between calls
Tick ==
    /\ \E t \in BlockTimes :
          /\ t > now
          /\ now' = t
    /\ lastCall' = NoCall
    /\ UNCHANGED <<calls, deployed, marketplace_fee_percent, wine_registry_address,
                   listing_counter, auction_counter, listings, auctions,
                   seller_listings, seller_auctions, supported_payment_tokens,
                   marketplace_stats, nftOwner, scBalance>>

Init ==
    /\ deployed = FALSE
    /\ marketplace_fee_percent = 0
    /\ wine_registry_address = ""
    /\ listing_counter = 0
    /\ auction_counter = 0
    /\ listings = << >>
    /\ auctions = << >>
    /\ seller_listings = [a \in Addresses |-> << >>]
    /\ seller_auctions = [a \in Addresses |-> << >>]
    /\ supported_payment_tokens = {}
    /\ marketplace_stats = EmptyStats
    /\ nftOwner = [n \in NftNonces |-> "alice"]
    /\ scBalance = [t \in PaymentTokens |-> 0]
    /\ now = GenesisTime
    /\ calls = 0
    /\ lastCall = NoCall

Next ==
    \/ init
    \/ add_supported_token
    \/ create_listing
    \/ buy_wine
    \/ cancel_listing
    \/ create_auction
    \/ place_bid
    \/ finalize_auction
    \/ Tick

Spec == Init /\ [][Next]_vars

\* ------------------------------------------- several listings and auctions
\* createListing with ids up to max
create_listing_within(max) ==
    /\ deployed
    /\ calls < MaxCalls
    /\ listing_counter <= max
    /\ \E caller \in Addresses, payment \in AssetPayments, price \in PriceInputs,
          payment_token \in PaymentTokens, duration_seconds \in ListingDurations :
          /\ Holds(caller, payment)
          /\ Call("createListing", caller, listing_counter,
                  create_listing_call(caller, payment, 1, price, payment_token,
                                      duration_seconds),
                  listing_counter)

\* createAuction with ids up to max
create_auction_within(max) ==
    /\ deployed
    /\ calls < MaxCalls
    /\ auction_counter <= max
    /\ \E caller \in Addresses, payment \in AssetPayments,
          starting_price \in StartingPrices, payment_token \in PaymentTokens,
          duration_seconds \in AuctionDurations, min_bid_increment \in Increments :
          /\ Holds(caller, payment)
          /\ Call("createAuction", caller, auction_counter,
                  create_auction_call(caller, payment, 1, starting_price,
                                      payment_token, duration_seconds,
                                      min_bid_increment),
                  auction_counter)

\* creations, cancellations and finalizations over time, with up to MaxIds
\* listings and MaxIds auctions
NextIds ==
    \/ init
    \/ create_listing_within(MaxIds)
    \/ cancel_listing
    \/ create_auction_within(MaxIds)
    \/ finalize_auction
    \/ Tick

SpecIds == Init /\ [][NextIds]_vars

TypeOK ==
    /\ deployed \in BOOLEAN
    /\ marketplace_fee_percent \in 0..MAX_FEE_BPS
    /\ \A l \in DOMAIN listings : listings[l].seller \in Addresses
    /\ \A a \in DOMAIN auctions : auctions[a].seller \in Addresses
    /\ \A t \in PaymentTokens : scBalance[t] >= 0
    /\ now \in BlockTimes

\* ================================================================ claims
\* a rejected call had executed no transfer and no write when it aborted,
\* and leaves storage, custody and balances as they were
Untouched(r) == ~r.ok => (r.done = 0 /\ r.out = << >> /\ r.w = World)

\* the model takes a call only while the call budget lasts, and a creation
\* only while the id bound lasts: the claims quantify over the same calls
CanCall == deployed /\ calls < MaxCalls
CanCreateListing == CanCall /\ listing_counter <= MaxListings
CanCreateAuction == CanCall /\ auction_counter <= MaxAuctions

\* C1: in createListing, buyWine, cancelListing, createAuction, placeBid and
\* finalizeAuction every check that can reject the call comes before the first
\* transfer and the first storage write, so a rejected call changes nothing.
C1_ChecksBeforeEffects ==
    /\ CanCreateListing =>
          \A c \in Addresses, p \in AssetPayments, price \in PriceInputs,
             t \in PaymentTokens, d \in ListingDurations :
             Holds(c, p) => Untouched(create_listing_call(c, p, 1, price, t, d))
    /\ CanCreateAuction =>
          \A c \in Addresses, p \in AssetPayments, sp \in StartingPrices,
             t \in PaymentTokens, d \in AuctionDurations, inc \in Increments :
             Holds(c, p) => Untouched(create_auction_call(c, p, 1, sp, t, d, inc))
    /\ CanCall =>
          /\ \A c \in Addresses, p \in BuyPayments, id \in ListingIds :
                Untouched(buy_wine_call(c, p, id))
          /\ \A c \in Addresses, id \in ListingIds :
                Untouched(cancel_listing_call(c, id))
          /\ \A c \in Addresses, p \in BidPayments, id \in AuctionIds :
                Untouched(place_bid_call(c, p, id))
          /\ \A c \in Addresses, id \in AuctionIds :
                Untouched(finalize_auction_call(c, id))

\* a state where a purchase and a finalization are both rejected by the last
\* of their checks
C1_Witness ==
    /\ CanCall
    /\ \E c \in Addresses, p \in BuyPayments, id \in ListingIds :
          buy_wine_call(c, p, id).err = "Cannot buy your own listing"
    /\ \E c \in Addresses, id \in AuctionIds :
          finalize_auction_call(c, id).err = "Only seller or highest bidder can finalize"

ActiveListings == {l \in DOMAIN listings : listings[l].active}
ActiveAuctions == {a \in DOMAIN auctions : auctions[a].active}

\* units of the asset (tok, nonce) that active listings and auctions escrow
EscrowUnits(tok, nonce) ==
    Cardinality({l \in ActiveListings :
                    listings[l].nft_token_id = tok /\ listings[l].nft_nonce = nonce})
    + Cardinality({a \in ActiveAuctions :
                    auctions[a].nft_token_id = tok /\ auctions[a].nft_nonce = nonce})

\* the standing bids in token tok on the auctions of S
RECURSIVE SumBids(_, _)
SumBids(S, tok) ==
    IF S = {} THEN 0
    ELSE LET a == CHOOSE x \in S : TRUE
         IN (IF auctions[a].payment_token = tok /\ auctions[a].bid_count > 0
             THEN auctions[a].current_bid ELSE 0)
            + SumBids(S \ {a}, tok)

AssetOf(rec, to) ==
    [to |-> to, tok |-> rec.nft_token_id, nonce |-> rec.nft_nonce, amt |-> 1]

\* the contract holds an asset exactly while the listing or auction that
\* escrows it is active (fungible units are counted next to the standing bids)
C2_Custody ==
    deployed =>
    /\ \A n \in NftNonces :
          /\ EscrowUnits(WINE, n) <= 1
          /\ (nftOwner[n] = SC) <=> (EscrowUnits(WINE, n) = 1)
    /\ \A t \in PaymentTokens :
          scBalance[t] = EscrowUnits(t, 0) + SumBids(ActiveAuctions, t)

\* a step that deactivates a listing or auction is the one call that releases
\* its asset, first of its transfers, to the one recipient the call names
C2_Release ==
    /\ \A l \in DOMAIN listings :
          (listings[l].active /\ ~listings'[l].active) =>
             /\ lastCall'.op \in {"buyWine", "cancelListing"}
             /\ lastCall'.id = l
             /\ lastCall'.out[1] =
                   AssetOf(listings[l],
                           IF lastCall'.op = "buyWine" THEN lastCall'.caller
                           ELSE listings[l].seller)
             /\ lastCall'.op = "buyWine" => lastCall'.caller # listings[l].seller
             /\ \A i \in 2..Len(lastCall'.out) :
                   /\ lastCall'.out[i].tok = listings[l].payment_token
                   /\ lastCall'.out[i].nonce = 0
    /\ \A a \in DOMAIN auctions :
          (auctions[a].active /\ ~auctions'[a].active) =>
             /\ lastCall'.op = "finalizeAuction"
             /\ lastCall'.id = a
             /\ lastCall'.out[1] =
                   AssetOf(auctions[a],
                           IF auctions[a].bid_count > 0
                           THEN auctions[a].highest_bidder
                           ELSE auctions[a].seller)
             /\ \A i \in 2..Len(lastCall'.out) :
                   /\ lastCall'.out[i].tok = auctions[a].payment_token
                   /\ lastCall'.out[i].nonce = 0
    /\ lastCall'.op \in {"buyWine", "cancelListing"} /\ calls' # calls =>
          listings[lastCall'.id].active /\ ~listings'[lastCall'.id].active
    /\ lastCall'.op = "finalizeAuction" /\ calls' # calls =>
          auctions[lastCall'.id].active /\ ~auctions'[lastCall'.id].active

\* C2: the contract holds the escrowed asset of a listing or auction iff it
\* is active, and the asset is released exactly once, by the call that sets
\* active = false, to the buyer (buyWine), the highest bidder (finalizeAuction
\* with a bid) or the seller (cancelListing, finalizeAuction without a bid).
C2_EscrowReleasedOnce == [](C2_Custody) /\ [][C2_Release]_vars

\* a sold auction: the wine token went to the highest bidder, who is not the
\* account that finalized
C2_Witness ==
    /\ lastCall.op = "finalizeAuction"
    /\ auctions[lastCall.id].bid_count > 0
    /\ lastCall.out[1].tok = WINE
    /\ lastCall.out[1].to = auctions[lastCall.id].highest_bidder
    /\ lastCall.caller # auctions[lastCall.id].highest_bidder
    /\ nftOwner[lastCall.out[1].nonce] = auctions[lastCall.id].highest_bidder

\* fee is the floor of p * rate / 10000
IsFloorFee(fee, p) ==
    /\ fee * BPS_DENOMINATOR <= p * marketplace_fee_percent
    /\ p * marketplace_fee_percent < (fee + 1) * BPS_DENOMINATOR

\* the split of price p paid out by the recorded call: out[2] pays the seller
\* the net amount, out[3] pays the fee recipient when the fee is not zero
FeeSplit(p, seller, tok) ==
    LET net == lastCall.out[2].amt
        fee == p - net
    IN /\ lastCall.out[2] = [to |-> seller, tok |-> tok, nonce |-> 0, amt |-> net]
       /\ IsFloorFee(fee, p)
       /\ fee + net = p
       /\ 0 <= fee /\ fee <= p
       /\ fee > 0 => /\ Len(lastCall.out) >= 3
                     /\ lastCall.out[3] =
                           [to |-> Owner, tok |-> tok, nonce |-> 0, amt |-> fee]

\* C3: for every successful buyWine and every finalizeAuction with a real bid,
\* with price p: fee = floor(p * feeBps / 10000), net = p - fee, fee + net = p,
\* 0 <= fee <= p (the subtraction never underflows), the seller is paid net
\* and the fee recipient is paid fee.
C3_FeeSplit ==
    /\ lastCall.op = "buyWine" =>
          FeeSplit(listings[lastCall.id].price, listings[lastCall.id].seller,
                   listings[lastCall.id].payment_token)
    /\ (lastCall.op = "finalizeAuction" /\ auctions[lastCall.id].bid_count > 0) =>
          FeeSplit(auctions[lastCall.id].current_bid, auctions[lastCall.id].seller,
                   auctions[lastCall.id].payment_token)
    /\ CanCall =>
          /\ \A c \in Addresses, p \in BuyPayments, id \in ListingIds :
                buy_wine_call(c, p, id).err
                   # "cannot subtract because result would be negative"
          /\ \A c \in Addresses, id \in AuctionIds :
                finalize_auction_call(c, id).err
                   # "cannot subtract because result would be negative"

\* a sale at price 100 and rate 250: the fee 2.5 is rounded down to 2 and the
\* seller is paid 98
C3_Witness ==
    /\ lastCall.op = "buyWine"
    /\ listings[lastCall.id].price = 100
    /\ marketplace_fee_percent = 250
    /\ lastCall.out[2].amt = 98
    /\ lastCall.out[3].amt = 2
    /\ lastCall.out[3].to = Owner

Refund(auction) ==
    [to |-> auction.highest_bidder, tok |-> auction.payment_token, nonce |-> 0,
     amt |-> auction.current_bid]

\* C4: an accepted placeBid on an auction with bid_count > 0 pays exactly the
\* previous current_bid to exactly the previous highest_bidder (also when the
\* new bidder is that address) and nothing else; with bid_count = 0 it pays
\* nothing to anyone.
C4_ExactRefund ==
    CanCall =>
       \A c \in Addresses, p \in BidPayments, id \in AuctionIds :
          LET r == place_bid_call(c, p, id)
              auction == get_auction(id)
          IN r.ok =>
                /\ auction.bid_count > 0 => r.out = << Refund(auction) >>
                /\ auction.bid_count = 0 => r.out = << >>

\* starting price 50, increment 5, bids 55 then 61 by another bidder: the
\* first bidder got 55 back
C4_Witness ==
    /\ lastCall.op = "placeBid"
    /\ auctions[lastCall.id].starting_price = 50
    /\ auctions[lastCall.id].min_bid_increment = 5
    /\ auctions[lastCall.id].current_bid = 61
    /\ auctions[lastCall.id].bid_count = 2
    /\ Len(lastCall.out) = 1
    /\ lastCall.out[1].amt = 55
    /\ lastCall.out[1].to # lastCall.caller
    /\ lastCall.out[1].to # auctions[lastCall.id].seller

\* C5: on an active auction placeBid with attached amount
\* a < current_bid + min_bid_increment is rejected and changes nothing; the
\* first bid must be at least starting_price + min_bid_increment.
C5_LowBidRejected ==
    CanCall =>
       \A id \in ActiveAuctions :
          /\ auctions[id].bid_count = 0 =>
                auctions[id].current_bid = auctions[id].starting_price
          /\ \A c \in Addresses, p \in BidPayments :
                p.amt < auctions[id].current_bid + auctions[id].min_bid_increment =>
                   LET r == place_bid_call(c, p, id)
                   IN ~r.ok /\ Untouched(r)

\* a first bid one unit short of starting_price + min_bid_increment is turned
\* down for being too low
C5_Witness ==
    /\ CanCall
    /\ \E id \in ActiveAuctions, c \in Addresses, p \in BidPayments :
          /\ auctions[id].bid_count = 0
          /\ p.amt = auctions[id].starting_price + auctions[id].min_bid_increment - 1
          /\ place_bid_call(c, p, id).err = "Bid too low"

\* C6: an accepted placeBid at time now with end_timestamp - now < 600 sets
\* end_timestamp to end_timestamp + 600, one with end_timestamp - now >= 600
\* leaves it unchanged; every qualifying late bid extends, so consecutive late
\* bids add 600 each.
C6_AntiSniping ==
    CanCall =>
       \A c \in Addresses, p \in BidPayments, id \in AuctionIds :
          LET r == place_bid_call(c, p, id)
              auction == get_auction(id)
          IN r.ok =>
                /\ auction.end_timestamp - now < 600 =>
                      r.w.auctions[id].end_timestamp = auction.end_timestamp + 600
                /\ auction.end_timestamp - now >= 600 =>
                      r.w.auctions[id].end_timestamp = auction.end_timestamp

\* two late bids in a row on an auction of one hour opened at genesis: the
\* end has moved by 2 * 600
C6_Witness ==
    /\ lastCall.op = "placeBid"
    /\ auctions[lastCall.id].bid_count = 2
    /\ auctions[lastCall.id].end_timestamp = GenesisTime + MIN_DURATION + 2 * 600

\* an accepted bid on auction a is the step that records placeBid on a
BidAcceptedOn(a) ==
    lastCall'.op = "placeBid" /\ lastCall'.id = a /\ calls' # calls

C7_Step ==
    \A a \in DOMAIN auctions :
       /\ a \in DOMAIN auctions'
       /\ auctions'[a].current_bid >= auctions[a].current_bid
       /\ auctions'[a].end_timestamp >= auctions[a].end_timestamp
       /\ BidAcceptedOn(a) =>
             auctions'[a].current_bid >=
                auctions[a].current_bid + auctions[a].min_bid_increment

\* C7: between any two successive states current_bid and end_timestamp of an
\* auction never decrease, and each accepted bid raises current_bid by at
\* least min_bid_increment.
C7_Monotone == [][C7_Step]_vars

\* a second bid that raised the standing bid from 55 to 61 and, being late,
\* moved the end as well
C7_Witness ==
    /\ lastCall.op = "placeBid"
    /\ Len(lastCall.out) = 1
    /\ lastCall.out[1].amt = 55
    /\ auctions[lastCall.id].current_bid = 61
    /\ auctions[lastCall.id].end_timestamp = GenesisTime + MIN_DURATION + 600

C8_Step ==
    \A l \in DOMAIN listings :
       /\ l \in DOMAIN listings'
       /\ ~listings[l].active => ~listings'[l].active
       /\ (listings[l].active /\ ~listings'[l].active) =>
             /\ lastCall'.op \in {"buyWine", "cancelListing"}
             /\ lastCall'.id = l
             /\ calls' = calls + 1

\* C8: the active flag of a listing goes from true to false at most once, by
\* one successful buyWine or cancelListing, is never true again afterwards,
\* and the listing record is never deleted.
C8_ListingTerminal == [][C8_Step]_vars

\* a cancelled listing that is still stored, with calls left to try it again
C8_Witness ==
    /\ CanCall
    /\ lastCall.op = "cancelListing"
    /\ lastCall.id \in DOMAIN listings
    /\ ~listings[lastCall.id].active
    /\ cancel_listing_call(listings[lastCall.id].seller, lastCall.id).err
          = "Listing is not active"

Rejected(r) == ~r.ok /\ Untouched(r)

\* C9: buyWine and cancelListing on a listing with active = false, placeBid
\* and finalizeAuction on an auction with active = false are rejected with no
\* transfer and no state change.
C9_InactiveRejected ==
    CanCall =>
       /\ \A l \in DOMAIN listings : ~listings[l].active =>
             /\ \A c \in Addresses, p \in BuyPayments : Rejected(buy_wine_call(c, p, l))
             /\ \A c \in Addresses : Rejected(cancel_listing_call(c, l))
       /\ \A a \in DOMAIN auctions : ~auctions[a].active =>
             /\ \A c \in Addresses, p \in BidPayments : Rejected(place_bid_call(c, p, a))
             /\ \A c \in Addresses : Rejected(finalize_auction_call(c, a))

\* a finalized auction whose seller and winner both try to finalize it again
C9_Witness ==
    /\ CanCall
    /\ lastCall.op = "finalizeAuction"
    /\ ~auctions[lastCall.id].active
    /\ auctions[lastCall.id].bid_count > 0
    /\ finalize_auction_call(auctions[lastCall.id].seller, lastCall.id).err
          = "Auction is not active"
    /\ finalize_auction_call(auctions[lastCall.id].highest_bidder, lastCall.id).err
          = "Auction is not active"

C10_State ==
    \A a \in DOMAIN auctions :
       /\ auctions[a].current_bid >= auctions[a].starting_price
       /\ auctions[a].bid_count >= 0
       /\ auctions[a].bid_count > 0 => auctions[a].highest_bidder # auctions[a].seller
       /\ auctions[a].bid_count = 0 =>
             /\ auctions[a].highest_bidder = auctions[a].seller
             /\ auctions[a].current_bid = auctions[a].starting_price

\* bid_count starts at 0 and moves by one with each accepted bid, only then
C10_Step ==
    \A a \in DOMAIN auctions' :
       auctions'[a].bid_count =
          (IF a \in DOMAIN auctions THEN auctions[a].bid_count ELSE 0)
          + (IF BidAcceptedOn(a) THEN 1 ELSE 0)

\* C10: for every auction current_bid >= starting_price; bid_count is the
\* number of accepted bids on it; bid_count > 0 implies highest_bidder is not
\* the seller; bid_count = 0 implies highest_bidder = seller and
\* current_bid = starting_price.
C10_AuctionInvariants == [](C10_State) /\ [][C10_Step]_vars

\* an auction closed after two accepted bids
C10_Witness ==
    \E a \in DOMAIN auctions :
       /\ ~auctions[a].active
       /\ auctions[a].bid_count = 2
       /\ auctions[a].current_bid > auctions[a].starting_price
       /\ auctions[a].highest_bidder # auctions[a].seller

C11_State ==
    /\ marketplace_stats.active_listings = Cardinality(ActiveListings)
    /\ marketplace_stats.active_auctions = Cardinality(ActiveAuctions)

\* a counter that goes down goes down by one, from a value above zero
C11_Step ==
    /\ marketplace_stats'.active_listings < marketplace_stats.active_listings =>
          /\ marketplace_stats.active_listings > 0
          /\ marketplace_stats'.active_listings = marketplace_stats.active_listings - 1
    /\ marketplace_stats'.active_auctions < marketplace_stats.active_auctions =>
          /\ marketplace_stats.active_auctions > 0
          /\ marketplace_stats'.active_auctions = marketplace_stats.active_auctions - 1

\* C11: in every reachable state active_listings is the number of listings
\* whose active flag is true (expired ones that were not cancelled included)
\* and active_auctions is the number of auctions whose active flag is true;
\* so neither counter is ever decremented when it is 0.
C11_ActiveCounters == [](C11_State) /\ [][C11_Step]_vars

\* a listing past its deadline that is still active and still counted, next
\* to an auction that was finalized and is no longer counted
C11_Witness ==
    /\ \E l \in ActiveListings : now > listings[l].deadline
    /\ marketplace_stats.active_listings = 1
    /\ \E a \in DOMAIN auctions : ~auctions[a].active
    /\ marketplace_stats.active_auctions = 0

\* what a purchase of listing by buyer with attached payment pays out, in order
BuyWineTransfers(listing, buyer, payment) ==
    LET fee == marketplace_fee_of(listing.price)
        tok == listing.payment_token
    IN << AssetOf(listing, buyer),
          [to |-> listing.seller, tok |-> tok, nonce |-> 0,
           amt |-> listing.price - fee] >>
       \o (IF fee > 0
           THEN << [to |-> Owner, tok |-> tok, nonce |-> 0, amt |-> fee] >>
           ELSE << >>)
       \o (IF payment.amt > listing.price
           THEN << [to |-> buyer, tok |-> tok, nonce |-> 0,
                    amt |-> payment.amt - listing.price] >>
           ELSE << >>)

\* C12: a successful buyWine with attached amount a >= price p releases the
\* asset to the buyer, pays net to the seller, pays fee to the fee recipient
\* only if fee > 0 and refunds a - p to the buyer only if a > p; the contract's
\* own balance of the payment currency is the same after the call as before.
C12_BuyWineSettles ==
    CanCall =>
       \A c \in Addresses, p \in BuyPayments, id \in ListingIds :
          LET r == buy_wine_call(c, p, id)
              listing == get_listing(id)
          IN r.ok =>
                /\ p.amt >= listing.price
                /\ r.out = BuyWineTransfers(listing, c, p)
                /\ r.w.scBalance[listing.payment_token]
                      = scBalance[listing.payment_token]

\* Scenario A: a listing priced 100 in the native currency at rate 250, bought
\* with exactly 100 attached; seller_gets and fee_gets are the amounts paid
ScenarioA(seller_gets, fee_gets) ==
    (CanCall /\ marketplace_fee_percent = 250) =>
       \A c \in Addresses, id \in ListingIds :
          LET r == buy_wine_call(c, Payment(EGLD, 0, 100), id)
              listing == get_listing(id)
          IN (r.ok /\ listing.price = 100 /\ listing.payment_token = EGLD) =>
                /\ Len(r.out) = 3
                /\ r.out[2] = [to |-> listing.seller, tok |-> EGLD, nonce |-> 0,
                               amt |-> seller_gets]
                /\ r.out[3] = [to |-> Owner, tok |-> EGLD, nonce |-> 0,
                               amt |-> fee_gets]

\* C13 as stated: in scenario A (price 100, native currency, rate 250, buyer
\* pays 100) the seller receives 97 and the fee recipient receives 3.
C13_ScenarioA_97_3 == ScenarioA(97, 3)

\* C13: in scenario A (price 100, native currency, rate 250, buyer pays 100)
\* the fee 2.5 is rounded down: the seller receives 98 and the fee recipient 2.
C13_ScenarioA == ScenarioA(98, 2)

\* scenario A has happened: 100 paid in the native currency for a listing
\* priced 100 at rate 250, three transfers and no refund
C13_Witness ==
    /\ lastCall.op = "buyWine"
    /\ marketplace_fee_percent = 250
    /\ listings[lastCall.id].price = 100
    /\ listings[lastCall.id].payment_token = EGLD
    /\ listings[lastCall.id].nft_token_id = WINE
    /\ Len(lastCall.out) = 3
    /\ lastCall.out[2].to = listings[lastCall.id].seller
    /\ lastCall.out[2].amt + lastCall.out[3].amt = 100
    /\ scBalance[EGLD] = 0

\* the sum of the amounts of the transfers out[i], i >= from
RECURSIVE SumAmounts(_, _)
SumAmounts(out, from) ==
    IF from > Len(out) THEN 0 ELSE out[from].amt + SumAmounts(out, from + 1)

\* C14: a successful finalizeAuction on an auction with bid_count > 0 releases
\* the asset to highest_bidder, pays net = current_bid - fee to the seller and
\* fee to the fee recipient, sets active = false, takes 1 off active_auctions
\* and adds 1 to total_sales, current_bid to total_volume and fee to
\* total_fees_collected; the amounts paid out sum to the escrowed current_bid.
C14_FinalizeSold ==
    CanCall =>
       \A c \in Addresses, id \in AuctionIds :
          LET r == finalize_auction_call(c, id)
              auction == get_auction(id)
              fee == marketplace_fee_of(auction.current_bid)
              tok == auction.payment_token
          IN (r.ok /\ auction.bid_count > 0) =>
                /\ r.out = << AssetOf(auction, auction.highest_bidder),
                              [to |-> auction.seller, tok |-> tok, nonce |-> 0,
                               amt |-> auction.current_bid - fee] >>
                           \o (IF fee > 0
                               THEN << [to |-> Owner, tok |-> tok, nonce |-> 0,
                                        amt |-> fee] >>
                               ELSE << >>)
                /\ SumAmounts(r.out, 2) = auction.current_bid
                /\ r.w.auctions = [a \in DOMAIN auctions |->
                                     IF a = id THEN [auction EXCEPT !.active = FALSE]
                                     ELSE auctions[a]]
                /\ r.w.marketplace_stats =
                      [marketplace_stats EXCEPT
                          !.active_auctions = @ - 1,
                          !.total_sales = @ + 1,
                          !.total_volume = @ + auction.current_bid,
                          !.total_fees_collected = @ + fee]

\* an auction sold at 61 and finalized by its seller: 60 to the seller, 1 to
\* the fee recipient, the statistics show one sale of volume 61
C14_Witness ==
    /\ lastCall.op = "finalizeAuction"
    /\ lastCall.caller = auctions[lastCall.id].seller
    /\ auctions[lastCall.id].bid_count = 2
    /\ auctions[lastCall.id].current_bid = 61
    /\ ~auctions[lastCall.id].active
    /\ Len(lastCall.out) = 3
    /\ lastCall.out[1].to = auctions[lastCall.id].highest_bidder
    /\ lastCall.out[2].amt = 60
    /\ lastCall.out[3].amt = 1
    /\ marketplace_stats.total_sales = 1
    /\ marketplace_stats.total_volume = 61
    /\ marketplace_stats.total_fees_collected = 1
    /\ marketplace_stats.active_auctions = 0

\* the world after the contract has handed the asset of rec back to its seller
AssetReturned(w, rec) ==
    DoSend(w, [to |-> rec.seller, tok |-> rec.nft_token_id,
               nonce |-> rec.nft_nonce, amt |-> 1])

\* C15: a successful finalizeAuction on an auction with bid_count = 0 returns
\* the asset to the seller, moves no payment and leaves total_sales,
\* total_volume, total_fees_collected, total_listings and active_listings
\* unchanged; only the auction's active flag and active_auctions change.
C15_FinalizeUnsold ==
    CanCall =>
       \A c \in Addresses, id \in AuctionIds :
          LET r == finalize_auction_call(c, id)
              auction == get_auction(id)
          IN (r.ok /\ auction.bid_count = 0) =>
                /\ r.out = << AssetOf(auction, auction.seller) >>
                /\ r.w = AssetReturned(
                            [World EXCEPT
                                !.auctions[id].active = FALSE,
                                !.marketplace_stats.active_auctions = @ - 1],
                            auction)

\* an auction without a bid finalized after its end: the wine token is back
\* with the seller, nothing was sold, and a listing opened next to it is
\* still counted
C15_Witness ==
    /\ lastCall.op = "finalizeAuction"
    /\ auctions[lastCall.id].bid_count = 0
    /\ ~auctions[lastCall.id].active
    /\ now >= auctions[lastCall.id].end_timestamp
    /\ auctions[lastCall.id].nft_token_id = WINE
    /\ nftOwner[auctions[lastCall.id].nft_nonce] = auctions[lastCall.id].seller
    /\ Len(lastCall.out) = 1
    /\ marketplace_stats.total_sales = 0
    /\ marketplace_stats.total_volume = 0
    /\ marketplace_stats.total_listings = 1
    /\ marketplace_stats.active_listings = 1
    /\ marketplace_stats.active_auctions = 0

\* C16: finalizeAuction is rejected with no state change when
\* now < end_timestamp and when the caller is neither the seller nor the
\* current highest_bidder; so an auction without a bid can be finalized only by
\* its seller, and an outbid bidder or a third party can never finalize.
C16_FinalizeGuards ==
    CanCall =>
       \A a \in DOMAIN auctions, c \in Addresses :
          LET r == finalize_auction_call(c, a)
          IN /\ now < auctions[a].end_timestamp => Rejected(r)
             /\ (c # auctions[a].seller /\ c # auctions[a].highest_bidder) =>
                   Rejected(r)
             /\ (r.ok /\ auctions[a].bid_count = 0) => c = auctions[a].seller

\* an ended auction with two bids: the highest bidder may finalize it, the
\* one address that is neither seller nor highest bidder is turned away
C16_Witness ==
    /\ CanCall
    /\ \E a \in ActiveAuctions, c \in Addresses :
          /\ now >= auctions[a].end_timestamp
          /\ auctions[a].bid_count = 2
          /\ c # auctions[a].seller
          /\ c # auctions[a].highest_bidder
          /\ finalize_auction_call(c, a).err
                = "Only seller or highest bidder can finalize"
          /\ finalize_auction_call(auctions[a].highest_bidder, a).ok

\* C17: buyWine is rejected with no state change when now > deadline, when
\* the attached payment descriptor differs from the listing's, when the
\* attached amount is less than the price, or when the caller is the listing's
\* seller; a purchase at exactly now = deadline that meets the other
\* preconditions is accepted.
C17_BuyWineGuards ==
    CanCall =>
       \A l \in DOMAIN listings, c \in Addresses, p \in BuyPayments :
          LET r == buy_wine_call(c, p, l)
              listing == listings[l]
          IN /\ now > listing.deadline => Rejected(r)
             /\ p.tok # listing.payment_token => Rejected(r)
             /\ p.amt < listing.price => Rejected(r)
             /\ c = listing.seller => Rejected(r)
             /\ (/\ listing.active
                 /\ now = listing.deadline
                 /\ p.tok = listing.payment_token
                 /\ p.amt >= listing.price
                 /\ c # listing.seller) => r.ok

\* a purchase recorded at the very second of the deadline
C17_Witness ==
    /\ lastCall.op = "buyWine"
    /\ now = listings[lastCall.id].deadline
    /\ ~listings[lastCall.id].active
    /\ lastCall.out[1].to = lastCall.caller
    /\ lastCall.caller # listings[lastCall.id].seller

\* C18: cancelListing is rejected when the caller is not the listing's seller;
\* a successful cancelListing returns the asset to the seller, moves no
\* payment, sets active = false and takes 1 off active_listings, and leaves
\* total_listings, total_sales, total_volume, total_fees_collected,
\* active_auctions and every other listing and auction unchanged.
C18_CancelListing ==
    CanCall =>
       \A l \in DOMAIN listings, c \in Addresses :
          LET r == cancel_listing_call(c, l)
              listing == listings[l]
          IN /\ c # listing.seller => Rejected(r)
             /\ r.ok =>
                   /\ r.out = << AssetOf(listing, listing.seller) >>
                   /\ r.w = AssetReturned(
                               [World EXCEPT
                                   !.listings[l].active = FALSE,
                                   !.marketplace_stats.active_listings = @ - 1],
                               listing)

\* a listing cancelled while an auction with a standing bid is open: the bid
\* is still held and the auction still counted
C18_Witness ==
    /\ lastCall.op = "cancelListing"
    /\ lastCall.caller = listings[lastCall.id].seller
    /\ ~listings[lastCall.id].active
    /\ lastCall.out = << AssetOf(listings[lastCall.id], lastCall.caller) >>
    /\ marketplace_stats.total_listings = 1
    /\ marketplace_stats.active_listings = 0
    /\ marketplace_stats.active_auctions = 1
    /\ \E a \in ActiveAuctions :
          /\ auctions[a].bid_count = 1
          /\ scBalance[auctions[a].payment_token] >= auctions[a].current_bid

\* exactly one unit of one asset is attached
OneAssetUnit(payment) == payment.tok # EGLD /\ payment.amt = 1

C21_State ==
    /\ marketplace_fee_percent <= 1000
    /\ ~deployed =>
          \A f \in FeeInputs :
             f > 1000 => Rejected(init_call(f, "registry"))

\* once configured, the fee rate stays what it is
C21_Step == deployed => marketplace_fee_percent' = marketplace_fee_percent

\* C21: configuration (init) with a fee rate above 1000 basis points (e.g.
\* 1500) is rejected; in every reachable state the configured fee rate is
\* <= 1000, and no marketplace operation after configuration changes it.
C21_FeeCap == [](C21_State) /\ [][C21_Step]_vars

\* the rate configured at deployment is still in place after an auction was
\* finalized with a sale, and 1500 would still be refused
C21_Witness ==
    /\ deployed
    /\ marketplace_fee_percent = 250
    /\ marketplace_stats.total_sales >= 1
    /\ \E a \in DOMAIN auctions : ~auctions[a].active
    /\ init_call(1500, "registry").err = "Fee cannot exceed 10%"

\* the step is an accepted creation recorded under op
Created(op) == lastCall'.op = op /\ calls' # calls

C22_State ==
    deployed =>
       /\ DOMAIN listings = 1..(listing_counter - 1)
       /\ DOMAIN auctions = 1..(auction_counter - 1)
       /\ (calls < MaxCalls /\ listing_counter <= MaxIds) =>
             \A c \in Addresses, p \in AssetPayments, price \in PriceInputs,
                t \in PaymentTokens, d \in ListingDurations :
                LET r == create_listing_call(c, p, 1, price, t, d)
                IN (Holds(c, p) /\ ~r.ok) =>
                      /\ r.w.listing_counter = listing_counter
                      /\ DOMAIN r.w.listings = DOMAIN listings
       /\ (calls < MaxCalls /\ auction_counter <= MaxIds) =>
             \A c \in Addresses, p \in AssetPayments, sp \in StartingPrices,
                t \in PaymentTokens, d \in AuctionDurations, inc \in Increments :
                LET r == create_auction_call(c, p, 1, sp, t, d, inc)
                IN (Holds(c, p) /\ ~r.ok) =>
                      /\ r.w.auction_counter = auction_counter
                      /\ DOMAIN r.w.auctions = DOMAIN auctions

\* the n-th accepted creation returns n, an id not issued before, and moves
\* the counter to n + 1; no other step moves a counter or issues an id
C22_Step ==
    /\ listing_counter' >= listing_counter
    /\ auction_counter' >= auction_counter
    /\ Created("createListing") =>
          /\ lastCall'.ret = Cardinality(DOMAIN listings) + 1
          /\ lastCall'.ret \notin DOMAIN listings
          /\ DOMAIN listings' = DOMAIN listings \cup {lastCall'.ret}
          /\ listing_counter' = lastCall'.ret + 1
    /\ Created("createAuction") =>
          /\ lastCall'.ret = Cardinality(DOMAIN auctions) + 1
          /\ lastCall'.ret \notin DOMAIN auctions
          /\ DOMAIN auctions' = DOMAIN auctions \cup {lastCall'.ret}
          /\ auction_counter' = lastCall'.ret + 1
    /\ (deployed /\ ~Created("createListing")) =>
          /\ listing_counter' = listing_counter
          /\ DOMAIN listings' = DOMAIN listings
    /\ (deployed /\ ~Created("createAuction")) =>
          /\ auction_counter' = auction_counter
          /\ DOMAIN auctions' = DOMAIN auctions

\* C22: listing ids and auction ids are each issued as 1, 2, 3, ... in order
\* of successful creation: the n-th successful createListing (createAuction)
\* returns n, each counter only ever increases, rejected creations consume no
\* id, and no id is issued twice, also after its listing or auction has been
\* deactivated.
C22_IdsInOrder == [](C22_State) /\ [][C22_Step]_vars

\* the third listing gets id 3 after listing 1 has been cancelled
C22_Witness ==
    /\ lastCall.op = "createListing"
    /\ lastCall.ret = 3
    /\ DOMAIN listings = {1, 2, 3}
    /\ ~listings[1].active
    /\ listings[3].active
    /\ listing_counter = 4

\* C23: cancelListing can be performed only by the listing's seller and only
\* before the listing's expiry: a cancelListing call made after the listing's
\* deadline has passed is rejected.
C23_CancelOnlyBeforeExpiry ==
    CanCall =>
       \A l \in DOMAIN listings, c \in Addresses :
          (c # listings[l].seller \/ now > listings[l].deadline) =>
             Rejected(cancel_listing_call(c, l))

\* C24: solvency: in every reachable state, for each payment descriptor, the
\* amount of that currency held by the contract equals the sum of current_bid
\* over the active auctions using that descriptor that have bid_count > 0;
\* listings and auctions without a bid hold no currency.
C24_Solvency ==
    deployed =>
       \A t \in supported_payment_tokens :
          scBalance[t] = SumBids(ActiveAuctions, t)

\* no auction takes a bid and a finalization at the same time
C25_State ==
    CanCall =>
       \A a \in DOMAIN auctions :
          ~ /\ \E c \in Addresses, p \in BidPayments : place_bid_call(c, p, a).ok
            /\ \E c \in Addresses : finalize_auction_call(c, a).ok

\* the clock does not go back; an auction whose end has come keeps its bid,
\* bidder, bid count and end, and its asset goes to the bidder it names
C25_Step ==
    /\ now' >= now
    /\ \A a \in DOMAIN auctions :
          now >= auctions[a].end_timestamp =>
             /\ auctions'[a].current_bid = auctions[a].current_bid
             /\ auctions'[a].highest_bidder = auctions[a].highest_bidder
             /\ auctions'[a].bid_count = auctions[a].bid_count
             /\ auctions'[a].end_timestamp = auctions[a].end_timestamp
             /\ (auctions[a].active /\ ~auctions'[a].active
                    /\ auctions[a].bid_count > 0) =>
                   lastCall'.out[1] = AssetOf(auctions[a], auctions[a].highest_bidder)

\* C25: with a non-decreasing clock, placeBid and finalizeAuction are never
\* both acceptable for the same auction at the same time; once
\* now >= end_timestamp holds for an active auction, its current_bid,
\* highest_bidder, bid_count and end_timestamp never change again, so the
\* bidder who is highest at that moment receives the asset at finalization.
C25_BidThenFinalize == [](C25_State) /\ [][C25_Step]_vars

\* at the very second an auction with a bid ends, a sufficient bid is turned
\* away for being late while the highest bidder can finalize
C25_Witness ==
    /\ CanCall
    /\ \E a \in ActiveAuctions :
          /\ now = auctions[a].end_timestamp
          /\ auctions[a].bid_count > 0
          /\ \E c \in Addresses, p \in BidPayments :
                /\ c # auctions[a].seller
                /\ p.tok = auctions[a].payment_token
                /\ p.amt >= auctions[a].current_bid + auctions[a].min_bid_increment
                /\ place_bid_call(c, p, a).err = "Auction has ended"
          /\ finalize_auction_call(auctions[a].highest_bidder, a).ok

\* C26: immediately after every accepted placeBid at time now the auction's
\* end_timestamp - now is at least 600 seconds, so a competing bidder always
\* has at least ten minutes to respond to a bid.
C26_ResponseWindow ==
    CanCall =>
       \A c \in Addresses, p \in BidPayments, id \in AuctionIds :
          LET r == place_bid_call(c, p, id)
          IN r.ok => r.w.auctions[id].end_timestamp - now >= 600

\* a bid taken with 300 seconds left: the end was moved and 900 seconds remain
C26_Witness ==
    /\ lastCall.op = "placeBid"
    /\ auctions[lastCall.id].bid_count = 1
    /\ auctions[lastCall.id].end_timestamp = GenesisTime + MIN_DURATION + 600
    /\ auctions[lastCall.id].end_timestamp - now = 900

SoldAuctions == {a \in DOMAIN auctions : ~auctions[a].active /\ auctions[a].bid_count > 0}

RECURSIVE SumWinningBids(_)
SumWinningBids(S) ==
    IF S = {} THEN 0
    ELSE LET a == CHOOSE x \in S : TRUE
         IN auctions[a].current_bid + SumWinningBids(S \ {a})

\* listings closed by a purchase or a cancellation
ClosedListings == {l \in DOMAIN listings : ~listings[l].active}

\* total_listings counts the listings created, auctions not; the sales are
\* the sold auctions and some of the closed listings
C28_State ==
    deployed =>
       /\ marketplace_stats.total_listings = listing_counter - 1
       /\ marketplace_stats.total_listings = Cardinality(DOMAIN listings)
       /\ marketplace_stats.total_sales >= Cardinality(SoldAuctions)
       /\ marketplace_stats.total_sales
             <= Cardinality(SoldAuctions) + Cardinality(ClosedListings)
       /\ ClosedListings = {} =>
             /\ marketplace_stats.total_sales = Cardinality(SoldAuctions)
             /\ marketplace_stats.total_volume = SumWinningBids(SoldAuctions)

\* the sale the step records, if any: its price and the fee it paid out
SaleStep ==
    /\ calls' # calls
    /\ \/ lastCall'.op = "buyWine"
       \/ /\ lastCall'.op = "finalizeAuction"
          /\ auctions[lastCall'.id].bid_count > 0

SalePrice ==
    IF lastCall'.op = "buyWine" THEN listings[lastCall'.id].price
    ELSE auctions[lastCall'.id].current_bid

FeePaidOut == SalePrice - lastCall'.out[2].amt

\* every step moves the totals by what it sold and by nothing else
C28_Step ==
    /\ deployed =>
          marketplace_stats'.total_listings =
             marketplace_stats.total_listings
             + (IF Created("createListing") THEN 1 ELSE 0)
    /\ (deployed /\ SaleStep) =>
          /\ marketplace_stats'.total_sales = marketplace_stats.total_sales + 1
          /\ marketplace_stats'.total_volume =
                marketplace_stats.total_volume + SalePrice
          /\ marketplace_stats'.total_fees_collected =
                marketplace_stats.total_fees_collected + FeePaidOut
          /\ FeePaidOut > 0 =>
                lastCall'.out[3] =
                   [to |-> Owner, tok |-> lastCall'.out[2].tok, nonce |-> 0,
                    amt |-> FeePaidOut]
    /\ (deployed /\ ~SaleStep) =>
          /\ marketplace_stats'.total_sales = marketplace_stats.total_sales
          /\ marketplace_stats'.total_volume = marketplace_stats.total_volume
          /\ marketplace_stats'.total_fees_collected =
                marketplace_stats.total_fees_collected
    /\ (calls' # calls /\ lastCall'.op \in {"placeBid", "addSupportedToken"}) =>
          marketplace_stats' = marketplace_stats

====
